---- MODULE Spec2Model ----
(***************************************************************************)
(* hydrodata: record/replay HTTP client, archive persistence and the ANA   *)
(* station provider.                                                       *)
(*                                                                         *)
(* The state is what survives between calls: the record directory of the   *)
(* RecordingHttpClient (cache), the directories written by file_storage    *)
(* (files), and an observation of the most recent call (last): its         *)
(* arguments, the requests it made and what it returned or raised.         *)
(*                                                                         *)
(* Strings that the code builds (str(code), ";".join, file names, the JSON *)
(* text that is hashed) are sequences of string tokens, built the way the  *)
(* code builds them. Byte strings are sequences of byte values.            *)
(*                                                                         *)
(* Two further variables serve the parts of the program that do not touch  *)
(* the directories of one process: geo observes the most recent call into  *)
(* the spatial filter, and race holds two processes that run               *)
(* RecordingHttpClient.get against one record directory, step by step.     *)
(* Spec is the single process; SpecSpatial and SpecRace are the other two. *)
(***************************************************************************)
EXTENDS Integers, Sequences, FiniteSets, TLC

VARIABLES cache, files, last, geo, race

vars == <<cache, files, last, geo, race>>

----------------------------------------------------------------------------
(* Inputs of the model *)

\* AnaClientConfig defaults.
base_url == "http://www.snirh.gov.br/hidroweb/rest/api/documento/convencionais"
file_type == 3
download_dir == "data/ana/raw"
record_dir == "data/http_records"

\* A second URL, for calls made outside ANAClient.
OtherUrl == "http://example.org/other"

\* HttpError(message) without a status: status_code defaults to None.
\* None is modelled as an integer no HTTP status takes.
NoStatus == -1

\* Byte payloads a server may send or a caller may save.
Contents == { <<80, 75>>, <<90, 73, 80>> }

\* Status codes a server may answer with: OK, a success that is not 200
\* (Partial Content) and the smallest status that counts as an error.
Statuses == {200, 206, 400}

\* Header mapping of a real response (a set of name/value pairs).
ServerHeaders == { <<"Content-Type", "application/zip">> }

\* The longest list of station codes handed to download_station_files.
MaxCodes == 2

\* The station codes 111, 222, ...
LongestList == [i \in 1..MaxCodes |-> 111 * i]

\* Station code lists handed to download_station_files: none, and all.
StationLists == { <<>>, LongestList }

\* What the transport does with one request: it raises
\* requests.RequestException (exc), or it delivers a response.
NetOutcomes ==
    { [exc |-> TRUE, status_code |-> NoStatus, headers |-> {}, content |-> <<>>] }
    \cup
    { [exc |-> FALSE, status_code |-> s, headers |-> ServerHeaders, content |-> c] :
        s \in Statuses, c \in Contents }

----------------------------------------------------------------------------
(* Strings *)

Digits == <<"0", "1", "2", "3", "4", "5", "6", "7", "8", "9">>

\* str(n) for a natural number: its decimal digits.
RECURSIVE Str(_)
Str(n) ==
    IF n < 10 THEN << Digits[n + 1] >>
    ELSE Str(n \div 10) \o << Digits[(n % 10) + 1] >>

\* ";".join(str(code) for code in station_codes)
RECURSIVE Join(_)
Join(codes) ==
    IF codes = <<>> THEN <<>>
    ELSE IF Len(codes) = 1 THEN Str(codes[1])
    ELSE Str(codes[1]) \o <<";">> \o Join(Tail(codes))

----------------------------------------------------------------------------
(* Parameter mappings: Optional[Dict[str, Any]].  A dict is the sequence   *)
(* of its (key, value) items in insertion order, keys distinct.            *)

NoParams == [none |-> TRUE, items |-> <<>>]

Dict(items) == [none |-> FALSE, items |-> items]

\* String order of the parameter names in use ("documentos" < "tipo").
KeyOrder == <<"documentos", "tipo">>

KeyRank(k) == CHOOSE i \in 1..Len(KeyOrder) : KeyOrder[i] = k

\* Insert one item into a sequence of items sorted by key.
RECURSIVE InsertItem(_, _)
InsertItem(item, sorted) ==
    IF sorted = <<>> THEN << item >>
    ELSE IF KeyRank(item[1]) <= KeyRank(sorted[1][1])
         THEN << item >> \o sorted
         ELSE << sorted[1] >> \o InsertItem(item, Tail(sorted))

\* The items of a dict ordered by key, as json.dumps(sort_keys=True) emits.
RECURSIVE SortItems(_)
SortItems(items) ==
    IF items = <<>> THEN <<>>
    ELSE InsertItem(items[1], SortItems(Tail(items)))

\* JSON text of a sequence of items: "k": "v", "k": "v"
RECURSIVE JsonItems(_)
JsonItems(items) ==
    IF items = <<>> THEN <<>>
    ELSE <<"\"", items[1][1], "\": \"">> \o items[1][2] \o <<"\"">>
         \o (IF Len(items) > 1 THEN <<", ">> ELSE <<>>)
         \o JsonItems(Tail(items))

\* JSON text of Optional[Dict]: null, or the object with its keys sorted.
JsonParams(params) ==
    IF params.none THEN <<"null">>
    ELSE <<"{">> \o JsonItems(SortItems(params.items)) \o <<"}">>

\* json.dumps({"url": url, "params": params}, sort_keys=True)
JsonDumps(url, params) ==
    <<"{\"params\": ">> \o JsonParams(params)
        \o <<", \"url\": \"", url, "\"}">>

\* hashlib.sha256(raw).hexdigest(), taken to be collision free.
Sha256(raw) == [sha256_of |-> raw]

----------------------------------------------------------------------------
(* Values returned or raised *)

Httpresponse(status_code, headers, content) ==
    [kind |-> "Httpresponse", status_code |-> status_code,
     headers |-> headers, content |-> content]

HttpError(message, status_code) ==
    [kind |-> "HttpError", status_code |-> status_code, message |-> message]

PathResult(path) == [kind |-> "Path", path |-> path]

PathList(paths) == [kind |-> "List", paths |-> paths]

NoResult == [kind |-> "none"]

IsResponse(r) == r.kind = "Httpresponse"

IsError(r) == r.kind = "HttpError"

----------------------------------------------------------------------------
(* RequestsHttpClient *)

\* A get that lets status 400 through as a response.
RequestsHttpClient_get_above_400(url, params, net) ==
    IF net.exc
    THEN HttpError(<<"Erro de conexão ao acessar ", url>>, NoStatus)
    ELSE IF net.status_code > 400
    THEN HttpError(<<"Erro HTTP ", ToString(net.status_code), " ao acessar ", url>>,
                   net.status_code)
    ELSE Httpresponse(net.status_code, net.headers, net.content)

\* RequestsHttpClient.get, given what the transport does with the request.
RequestsHttpClient_get(url, params, net) ==
    IF net.exc
    THEN HttpError(<<"Erro de conexão ao acessar ", url>>, NoStatus)
    ELSE IF net.status_code >= 400
    THEN HttpError(<<"Erro HTTP ", ToString(net.status_code), " ao acessar ", url>>,
                   net.status_code)
    ELSE Httpresponse(net.status_code, net.headers, net.content)

----------------------------------------------------------------------------
(* RecordingHttpClient over an inner RequestsHttpClient *)

\* A key made without sort_keys: the items are hashed in insertion order.
_make_key_unsorted(url, params) ==
    Sha256(<<"{\"params\": ">>
           \o (IF params.none THEN <<"null">>
               ELSE <<"{">> \o JsonItems(params.items) \o <<"}">>)
           \o <<", \"url\": \"", url, "\"}">>)

_make_key(url, params) == Sha256(JsonDumps(url, params))

record_path(key) == <<record_dir, key, ".bin">>

\* path.exists() for the record file of a key.
RecordExists(store, key) == record_path(key) \in DOMAIN store

\* path.write_bytes(content): the file is created or replaced.
WriteBytes(store, path, content) ==
    [p \in DOMAIN store \cup {path} |-> IF p = path THEN content ELSE store[p]]

\* A get that records nothing: every call goes to the inner client.
RecordingHttpClient_get_no_write(store, url, params, net) ==
    LET key == _make_key(url, params)
        path == record_path(key)
    IN  IF RecordExists(store, key)
        THEN [store |-> store,
              result |-> Httpresponse(200, {}, store[path]),
              fetches |-> <<>>,
              inner |-> NoResult]
        ELSE LET resp == RequestsHttpClient_get(url, params, net)
             IN  [store |-> store,
                  result |-> resp,
                  fetches |-> << <<url, params>> >>,
                  inner |-> resp]

\* A get that records every response it is given, whatever its status.
RecordingHttpClient_get_any_status(store, url, params, net) ==
    LET key == _make_key(url, params)
        path == record_path(key)
    IN  IF RecordExists(store, key)
        THEN [store |-> store,
              result |-> Httpresponse(200, {}, store[path]),
              fetches |-> <<>>,
              inner |-> NoResult]
        ELSE LET resp == RequestsHttpClient_get(url, params, net)
             IN  [store |-> IF IsResponse(resp)
                            THEN WriteBytes(store, path, resp.content)
                            ELSE store,
                  result |-> resp,
                  fetches |-> << <<url, params>> >>,
                  inner |-> resp]

\* A get that refreshes: it asks the inner client first, records a 200
\* over whatever is there, and replays the record only when that fails.
RecordingHttpClient_get_refresh(store, url, params, net) ==
    LET key == _make_key(url, params)
        path == record_path(key)
        resp == RequestsHttpClient_get(url, params, net)
    IN  IF IsResponse(resp) /\ resp.status_code = 200
        THEN [store |-> WriteBytes(store, path, resp.content),
              result |-> resp,
              fetches |-> << <<url, params>> >>,
              inner |-> resp]
        ELSE IF RecordExists(store, key)
        THEN [store |-> store,
              result |-> Httpresponse(200, {}, store[path]),
              fetches |-> << <<url, params>> >>,
              inner |-> resp]
        ELSE [store |-> store,
              result |-> resp,
              fetches |-> << <<url, params>> >>,
              inner |-> resp]

\* RecordingHttpClient.get on the record directory `store`.  The result
\* names the new record directory, the value returned or raised, the calls
\* made to the inner client and what the inner client answered.
RecordingHttpClient_get(store, url, params, net) ==
    LET key == _make_key(url, params)
        path == record_path(key)
    IN  IF RecordExists(store, key)
        THEN [store |-> store,
              result |-> Httpresponse(200, {}, store[path]),
              fetches |-> <<>>,
              inner |-> NoResult]
        ELSE LET resp == RequestsHttpClient_get(url, params, net)
             IN  [store |-> IF IsResponse(resp) /\ resp.status_code = 200
                            THEN WriteBytes(store, path, resp.content)
                            ELSE store,
                  result |-> resp,
                  fetches |-> << <<url, params>> >>,
                  inner |-> resp]

----------------------------------------------------------------------------
(* file_storage *)

\* directory / filename
PathOf(target_dir, filename) == <<target_dir, "/">> \o filename

\* A save that ignores the overwrite flag and always writes.
save_bytes_to_file_always_write(fs, content, target_dir, filename, overwrite) ==
    LET path == PathOf(target_dir, filename)
    IN  [fs |-> WriteBytes(fs, path, content), path |-> path, wrote |-> TRUE]

\* save_bytes_to_file: the new directory contents, the path returned and
\* whether path.write_bytes ran.
save_bytes_to_file(fs, content, target_dir, filename, overwrite) ==
    LET path == PathOf(target_dir, filename)
    IN  IF path \in DOMAIN fs /\ ~overwrite
        THEN [fs |-> fs, path |-> path, wrote |-> FALSE]
        ELSE [fs |-> WriteBytes(fs, path, content), path |-> path, wrote |-> TRUE]

\* extract_dir: Optional[Path | str] = None
NoDir == ""

\* ZipFile(zip_path) accepts the bytes: they carry the "PK" signature.
IsZipFile(content) ==
    Len(content) >= 2 /\ content[1] = 80 /\ content[2] = 75

\* The (name, bytes) members of an archive.  The one archive among the
\* payloads is an empty archive.
ZipMembers(content) == {}

\* zipfile.BadZipFile, raised when the bytes are not an archive.
BadZipFile == [kind |-> "BadZipFile", message |-> <<"File is not a zip file">>]

\* zf.extractall(dest_dir): every member is written under dest_dir.
ExtractAll(fs, dest_dir, members) ==
    LET written == { PathOf(dest_dir, m[1]) : m \in members }
    IN  [p \in DOMAIN fs \cup written |->
           IF p \in written
           THEN (CHOOSE m \in members : PathOf(dest_dir, m[1]) = p)[2]
           ELSE fs[p]]

\* A save_zip_to_folder that keeps an archive that is already there.
save_zip_to_folder_keep_existing(fs, content, target_dir, filename_hint, extract, extract_dir) ==
    LET saved == save_bytes_to_file(fs, content, target_dir, filename_hint, FALSE)
    IN  IF extract /\ ~IsZipFile(content)
        THEN [fs |-> saved.fs, path |-> saved.path, wrote |-> saved.wrote,
              result |-> BadZipFile]
        ELSE [fs |-> IF extract
                     THEN ExtractAll(saved.fs,
                                     IF extract_dir = NoDir THEN target_dir
                                     ELSE extract_dir,
                                     ZipMembers(content))
                     ELSE saved.fs,
              path |-> saved.path, wrote |-> saved.wrote,
              result |-> PathResult(saved.path)]

\* A save_zip_to_folder that opens the bytes as an archive before it saves
\* them, and so saves nothing that is not an archive when asked to extract.
save_zip_to_folder_validate_first(fs, content, target_dir, filename_hint, extract, extract_dir) ==
    LET saved == save_bytes_to_file(fs, content, target_dir, filename_hint, TRUE)
    IN  IF extract /\ ~IsZipFile(content)
        THEN [fs |-> fs, path |-> saved.path, wrote |-> FALSE,
              result |-> BadZipFile]
        ELSE [fs |-> IF extract
                     THEN ExtractAll(saved.fs,
                                     IF extract_dir = NoDir THEN target_dir
                                     ELSE extract_dir,
                                     ZipMembers(content))
                     ELSE saved.fs,
              path |-> saved.path, wrote |-> saved.wrote,
              result |-> PathResult(saved.path)]

\* save_zip_to_folder: the bytes are saved with overwrite=True; then, if
\* extract is set, ZipFile(zip_path) opens them (raising BadZipFile when they
\* are no archive) and extractall writes the members into
\* extract_dir or target_dir.  The result names the new directory contents,
\* the path of the archive, whether it was written and the value returned
\* or raised.
save_zip_to_folder(fs, content, target_dir, filename_hint, extract, extract_dir) ==
    LET saved == save_bytes_to_file(fs, content, target_dir, filename_hint, TRUE)
    IN  IF extract /\ ~IsZipFile(content)
        THEN [fs |-> saved.fs, path |-> saved.path, wrote |-> saved.wrote,
              result |-> BadZipFile]
        ELSE [fs |-> IF extract
                     THEN ExtractAll(saved.fs,
                                     IF extract_dir = NoDir THEN target_dir
                                     ELSE extract_dir,
                                     ZipMembers(content))
                     ELSE saved.fs,
              path |-> saved.path, wrote |-> saved.wrote,
              result |-> PathResult(saved.path)]

----------------------------------------------------------------------------
(* ANAClient *)

\* params = {"tipo": str(file_type), "documentos": station_list}
ana_params(station_list) ==
    Dict(<< <<"tipo", Str(file_type)>>, <<"documentos", station_list>> >>)

\* f"ana_{station_list}.zip"
zip_filename(station_list) == <<"ana_">> \o station_list \o <<".zip">>

\* self.http_client.get: the client _build_http_client made for the mode
\* ("record": RecordingHttpClient over RequestsHttpClient, else the
\* RequestsHttpClient itself, which leaves the record directory alone).
http_client_get(mode, store, url, params, net) ==
    IF mode = "record"
    THEN RecordingHttpClient_get(store, url, params, net)
    ELSE LET resp == RequestsHttpClient_get(url, params, net)
         IN  [store |-> store, result |-> resp,
              fetches |-> << <<url, params>> >>, inner |-> NoResult]

\* A download that tries the get a second time when the first one fails.
download_station_files_retry(mode, store, fs, station_codes, net) ==
    LET station_list == Join(station_codes)
        params == ana_params(station_list)
        first == http_client_get(mode, store, base_url, params, net)
        again == http_client_get(mode, first.store, base_url, params, net)
    IN  IF IsError(first.result)
        THEN [store |-> again.store, fs |-> fs,
              gets |-> << <<base_url, params>>, <<base_url, params>> >>,
              fetches |-> first.fetches \o again.fetches, inner |-> again.inner,
              result |-> again.result]
        ELSE LET saved == save_zip_to_folder(fs, first.result.content,
                                             download_dir,
                                             zip_filename(station_list),
                                             FALSE, NoDir)
             IN  [store |-> first.store, fs |-> saved.fs,
                  gets |-> << <<base_url, params>> >>,
                  fetches |-> first.fetches, inner |-> first.inner,
                  result |-> PathList(<< saved.path >>)]

\* A download that swallows a failed get: it saves an empty archive and
\* returns its path.
download_station_files_swallow(mode, store, fs, station_codes, net) ==
    LET station_list == Join(station_codes)
        params == ana_params(station_list)
        got == http_client_get(mode, store, base_url, params, net)
        saved == save_zip_to_folder(fs,
                                    IF IsError(got.result) THEN <<>>
                                    ELSE got.result.content,
                                    download_dir, zip_filename(station_list),
                                    FALSE, NoDir)
    IN  [store |-> got.store, fs |-> saved.fs,
         gets |-> << <<base_url, params>> >>,
         fetches |-> got.fetches, inner |-> got.inner,
         result |-> PathList(<< saved.path >>)]

\* ANAClient.download_station_files: the new record directory and download
\* directory, the calls made on http_client (gets), the requests that
\* reached the RequestsHttpClient (fetches) and the value returned or raised.
download_station_files(mode, store, fs, station_codes, net) ==
    LET station_list == Join(station_codes)
        params == ana_params(station_list)
        got == http_client_get(mode, store, base_url, params, net)
    IN  IF IsError(got.result)
        THEN [store |-> got.store, fs |-> fs,
              gets |-> << <<base_url, params>> >>,
              fetches |-> got.fetches, inner |-> got.inner,
              result |-> got.result]
        ELSE LET saved == save_zip_to_folder(fs, got.result.content,
                                             download_dir,
                                             zip_filename(station_list),
                                             FALSE, NoDir)
             IN  [store |-> got.store, fs |-> saved.fs,
                  gets |-> << <<base_url, params>> >>,
                  fetches |-> got.fetches, inner |-> got.inner,
                  result |-> PathList(<< saved.path >>)]

----------------------------------------------------------------------------
(* The state machine *)

\* Both insertion orders of the ANA parameter mapping of a station list.
ParamOrders(station_codes) ==
    LET items == ana_params(Join(station_codes)).items
    IN  { Dict(items), Dict(<< items[2], items[1] >>) }

\* (url, params) pairs of the get calls made directly on a client.
GetRequests ==
    { <<OtherUrl, NoParams>> }
    \cup { <<base_url, p>> : p \in ParamOrders(LongestList) }

\* Record files that can exist: one per request identity in use.
RecordPaths ==
    { record_path(_make_key(r[1], r[2])) : r \in GetRequests }
    \cup { record_path(_make_key(base_url, ana_params(Join(l)))) : l \in StationLists }

\* (target_dir, filename) pairs saved to.
SaveTargets ==
    { <<download_dir, zip_filename(Join(l))>> : l \in StationLists }

FilePaths == { PathOf(t[1], t[2]) : t \in SaveTargets }

\* Every directory content over a set of paths: each file absent or present.
Stores(paths) == UNION { [D -> Contents] : D \in SUBSET paths }

\* The transport is not reached: no outcome to observe.
NoNet == [exc |-> FALSE, status_code |-> NoStatus, headers |-> {}, content |-> <<>>]

\* The observation of a call; every call fills in the fields it has.
\*   gets     the get calls made on ANAClient's http_client
\*   fetches  the get calls that reached the RequestsHttpClient (for a
\*            RecordingHttpClient these are the calls to its inner client)
\*   net      what the transport did with the fetch, if one was made
\*   inner    what the inner client of a RecordingHttpClient answered
\*   wrote    whether save_bytes_to_file wrote the file
\*   extract  the extract flag of save_zip_to_folder
\*   rel      how the call relates to the call before it
Idle ==
    [op |-> "none", mode |-> "none", url |-> "", params |-> NoParams,
     station_codes |-> <<>>, content |-> <<>>, target_dir |-> "",
     filename |-> <<>>, overwrite |-> FALSE, wrote |-> FALSE,
     extract |-> FALSE,
     gets |-> <<>>, fetches |-> <<>>, net |-> NoNet,
     inner |-> NoResult, result |-> NoResult, rel |-> "other"]

\* Two parameter mappings with the same key/value pairs.
SameMapping(p, q) ==
    /\ p.none = q.none
    /\ Len(p.items) = Len(q.items)
    /\ { p.items[i] : i \in DOMAIN p.items } = { q.items[i] : i \in DOMAIN q.items }

\* "same": the call before was the same operation on the same request or
\* target; "reordered": the same but for the order of the parameter keys.
Relation(before, call) ==
    IF \/ before.op # call.op
       \/ before.url # call.url
       \/ before.station_codes # call.station_codes
       \/ before.target_dir # call.target_dir
       \/ before.filename # call.filename
       \/ ~SameMapping(before.params, call.params)
    THEN "other"
    ELSE IF before.params = call.params THEN "same" ELSE "reordered"

Observe(call) == [call EXCEPT !.rel = Relation(last, call)]

\* The outcome of the transport as far as the call saw it.
Seen(fetches, net) == IF fetches = <<>> THEN NoNet ELSE net

\* No call into the spatial filter has been made.
GeoIdle ==
    [op |-> "none",
     shapefile |-> [exists |-> FALSE, crs |-> "none", features |-> <<>>],
     loaded |-> [kind |-> "none", read |-> FALSE, crs |-> "none", cells |-> {}],
     given |-> <<>>, stations |-> <<>>, area |-> {}, kept |-> <<>>]

\* No process is running RecordingHttpClient.get step by step.
RaceIdle ==
    [url |-> "", params |-> NoParams, upstream |-> <<>>,
     procs |-> [p \in {} |-> [pc |-> "done"]]]

\* The record directory and the output directories hold whatever earlier
\* runs (or a test's pre-seeding) left there.
Init ==
    /\ cache \in Stores(RecordPaths)
    /\ files \in Stores(FilePaths)
    /\ last = Idle
    /\ geo = GeoIdle
    /\ race = RaceIdle

\* A direct RequestsHttpClient.get.
RequestsGet ==
    \E r \in GetRequests, net \in NetOutcomes :
        /\ last' = Observe([Idle EXCEPT
                      !.op = "RequestsHttpClient.get", !.mode = "real",
                      !.url = r[1], !.params = r[2], !.net = net,
                      !.fetches = << r >>,
                      !.result = RequestsHttpClient_get(r[1], r[2], net)])
        /\ UNCHANGED <<cache, files, geo, race>>

\* A direct RecordingHttpClient.get.
RecordingGet ==
    \E r \in GetRequests, net \in NetOutcomes :
        LET got == RecordingHttpClient_get(cache, r[1], r[2], net)
        IN  /\ cache' = got.store
            /\ last' = Observe([Idle EXCEPT
                          !.op = "RecordingHttpClient.get", !.mode = "record",
                          !.url = r[1], !.params = r[2],
                          !.fetches = got.fetches,
                          !.net = Seen(got.fetches, net),
                          !.inner = got.inner,
                          !.result = got.result])
            /\ UNCHANGED <<files, geo, race>>

SaveBytesToFile ==
    \E t \in SaveTargets, content \in Contents, overwrite \in BOOLEAN :
        LET saved == save_bytes_to_file(files, content, t[1], t[2], overwrite)
        IN  /\ files' = saved.fs
            /\ last' = Observe([Idle EXCEPT
                          !.op = "save_bytes_to_file",
                          !.content = content, !.target_dir = t[1],
                          !.filename = t[2], !.overwrite = overwrite,
                          !.wrote = saved.wrote,
                          !.result = PathResult(saved.path)])
            /\ UNCHANGED <<cache, geo, race>>

SaveZipToFolder ==
    \E t \in SaveTargets, content \in Contents, extract \in BOOLEAN :
        LET saved == save_zip_to_folder(files, content, t[1], t[2], extract, NoDir)
        IN  /\ files' = saved.fs
            /\ last' = Observe([Idle EXCEPT
                          !.op = "save_zip_to_folder",
                          !.content = content, !.target_dir = t[1],
                          !.filename = t[2], !.wrote = saved.wrote,
                          !.extract = extract,
                          !.result = saved.result])
            /\ UNCHANGED <<cache, geo, race>>

DownloadStationFiles ==
    \E mode \in {"real", "record"}, codes \in StationLists, net \in NetOutcomes :
        LET done == download_station_files(mode, cache, files, codes, net)
        IN  /\ cache' = done.store
            /\ files' = done.fs
            /\ last' = Observe([Idle EXCEPT
                          !.op = "download_station_files",
                          !.mode = mode, !.station_codes = codes,
                          !.url = done.gets[1][1],
                          !.params = done.gets[1][2],
                          !.gets = done.gets,
                          !.fetches = done.fetches,
                          !.net = Seen(done.fetches, net),
                          !.inner = done.inner,
                          !.result = done.result])
            /\ UNCHANGED <<geo, race>>

Next ==
    \/ RequestsGet
    \/ RecordingGet
    \/ SaveBytesToFile
    \/ SaveZipToFolder
    \/ DownloadStationFiles

Spec == Init /\ [][Next]_vars

----------------------------------------------------------------------------
(* Properties *)

RecGet == "RecordingHttpClient.get"

\* The call went through RecordingHttpClient.get (directly, or as the
\* http_client of an ANAClient in record mode).
UsedRecording(call) ==
    \/ call.op = RecGet
    \/ call.op = "download_station_files" /\ call.mode = "record"

\* The record file of the request identity of a call.
RecordOf(call) == record_path(_make_key(call.url, call.params))

\* The inner fetch of the call ended with something other than a status-200
\* response: an HttpError, or a response with another status.
InnerNot200(call) ==
    /\ UsedRecording(call)
    /\ call.fetches # <<>>
    /\ ~(IsResponse(call.inner) /\ call.inner.status_code = 200)

\* C1, as stated: two successive RecordingHttpClient.get calls with the same
\* (url, params) that both return a response return byte-identical content,
\* and the second call makes no call to the inner client.
C1_SuccessiveGetsAgree_AsStated ==
    [][ ( /\ last.op = RecGet /\ last'.op = RecGet
          /\ last'.url = last.url /\ last'.params = last.params
          /\ IsResponse(last.result) /\ IsResponse(last'.result) )
        => ( /\ last'.result.content = last.result.content
             /\ last'.fetches = <<>> ) ]_vars

\* C1, amended: when the first of two successive RecordingHttpClient.get
\* calls with the same (url, params) returns a response with status 200, the
\* second returns byte-identical content and makes no call to the inner
\* client.
C1_SuccessiveGetsAgreeAfter200 ==
    [][ ( /\ last.op = RecGet /\ last'.op = RecGet
          /\ last'.url = last.url /\ last'.params = last.params
          /\ IsResponse(last.result) /\ last.result.status_code = 200 )
        => ( /\ IsResponse(last'.result)
             /\ last'.result.content = last.result.content
             /\ last'.fetches = <<>> ) ]_vars

\* A second get of the same (url, params) was answered from the record.
C1_Witness ==
    /\ last.op = RecGet /\ last.rel = "same"
    /\ IsResponse(last.result) /\ last.fetches = <<>>

\* C2: whenever the inner fetch of a RecordingHttpClient.get ends with
\* anything other than a status-200 response, no record exists for that
\* request identity afterwards, and the next get of that identity calls the
\* inner client again.
C2_Non200NeverCached ==
    [][ /\ InnerNot200(last') => RecordOf(last') \notin DOMAIN cache'
        /\ ( /\ InnerNot200(last) /\ UsedRecording(last')
             /\ RecordOf(last') = RecordOf(last) )
           => last'.fetches = << <<last'.url, last'.params>> >> ]_vars

\* The get before failed or was not a 200, and this identical get asked the
\* inner client again.
C2_Witness ==
    /\ last.op = RecGet /\ last.rel = "same"
    /\ last.fetches # <<>> /\ IsError(last.result)
    /\ RecordOf(last) \notin DOMAIN cache

\* C3: in every state where a record exists for the identity of
\* (url, params), RecordingHttpClient.get returns status 200, an empty header
\* mapping and exactly the stored bytes, and does not call the inner client.
C3_ReplayOnHit ==
    [][ ( last'.op = RecGet /\ RecordOf(last') \in DOMAIN cache )
        => ( /\ last'.result = Httpresponse(200, {}, cache[RecordOf(last')])
             /\ last'.fetches = <<>>
             /\ last'.inner = NoResult ) ]_vars

\* A get was answered with status 200 and no headers, without a fetch.
C3_Witness ==
    /\ last.op = RecGet /\ last.fetches = <<>>
    /\ IsResponse(last.result) /\ last.result.headers = {}
    /\ last.result.content = cache[RecordOf(last)]

\* Every insertion order of a sequence of items.
RECURSIVE Orders(_)
Orders(items) ==
    IF items = <<>> THEN { <<>> }
    ELSE UNION { { << items[i] >> \o rest :
                     rest \in Orders([j \in 1..(Len(items) - 1) |->
                                        IF j < i THEN items[j] ELSE items[j + 1]]) } :
                 i \in 1..Len(items) }

\* C4: for any url and any two parameter mappings with the same key/value
\* pairs in different key orders, _make_key yields the same identity, so a
\* response recorded through one ordering is replayed, without an inner
\* call, for the other ordering.
C4_KeyOrderIndependent ==
    [][ /\ ( last'.op = RecGet /\ ~last'.params.none )
           => \A items \in Orders(last'.params.items) :
                 _make_key(last'.url, Dict(items)) = _make_key(last'.url, last'.params)
        /\ ( /\ last.op = RecGet /\ last'.op = RecGet
             /\ last'.url = last.url /\ SameMapping(last.params, last'.params)
             /\ IsResponse(last.result) /\ last.result.status_code = 200 )
           => ( /\ last'.fetches = <<>>
                /\ IsResponse(last'.result)
                /\ last'.result.content = last.result.content ) ]_vars

\* A get with the keys in the other order was answered from the record.
C4_Witness ==
    /\ last.op = RecGet /\ last.rel = "reordered"
    /\ IsResponse(last.result) /\ last.fetches = <<>>

SaveBytes == "save_bytes_to_file"

SaveZip == "save_zip_to_folder"

Download == "download_station_files"

\* The file a save call was pointed at.
TargetOf(call) == PathOf(call.target_dir, call.filename)

\* Two successive save_bytes_to_file calls with the same target_dir and
\* filename.
SavedTwice ==
    /\ last.op = SaveBytes /\ last'.op = SaveBytes
    /\ last'.target_dir = last.target_dir /\ last'.filename = last.filename

\* C5, as stated: calling save_bytes_to_file twice with the same target_dir
\* and filename and overwrite=false leaves the first call's bytes in the
\* file and returns the same path both times; with overwrite=true on the
\* second call the file holds the second call's bytes.
C5_SaveTwice_AsStated ==
    [][ SavedTwice =>
          /\ ( ~last.overwrite /\ ~last'.overwrite )
             => ( /\ files'[TargetOf(last')] = last.content
                  /\ last'.result = last.result )
          /\ last'.overwrite => files'[TargetOf(last')] = last'.content ]_vars

\* C5, amended: calling save_bytes_to_file twice with the same target_dir
\* and filename, the second time with overwrite=false, leaves the file as
\* the first call left it (holding the first call's bytes whenever the first
\* call wrote: the file was absent before it, or it was called with
\* overwrite=true) and returns the same path both times, also when the second
\* call's bytes differ; with overwrite=true on the second call the file
\* holds the second call's bytes.
C5_SaveTwiceKeepsFirstFile ==
    [][ SavedTwice =>
          /\ ~last'.overwrite
             => ( /\ files'[TargetOf(last')] = files[TargetOf(last)]
                  /\ ~last'.wrote
                  /\ last.wrote => files'[TargetOf(last')] = last.content )
          /\ last'.overwrite => files'[TargetOf(last')] = last'.content
          /\ last'.result = last.result
          /\ last'.result = PathResult(TargetOf(last')) ]_vars

\* A second save with overwrite=false and other bytes left in place the
\* bytes the first save wrote.
C5_Witness ==
    /\ last.op = SaveBytes /\ last.rel = "same" /\ ~last.overwrite
    /\ TargetOf(last) \in DOMAIN files
    /\ files[TargetOf(last)] # last.content

\* The request and the archive of the station codes [111, 222].
Codes111_222 == <<111, 222>>

Params111_222 ==
    Dict(<< <<"tipo", <<"3">>>>,
            <<"documentos", <<"1", "1", "1", ";", "2", "2", "2">>>> >>)

Archive111_222 ==
    <<"data/ana/raw", "/", "ana_", "1", "1", "1", ";", "2", "2", "2", ".zip">>

\* The archive file of a download call: <download_dir>/ana_<joined-ids>.zip
ArchiveOf(call) == PathOf(download_dir, zip_filename(Join(call.station_codes)))

\* C6: for any list of station codes, if the cache holds a record for the
\* identity of (base_url, {tipo, documentos = codes joined by ';'}), then
\* download_station_files over a RecordingHttpClient leaves a file at
\* <download_dir>/ana_<joined-ids>.zip holding exactly the recorded bytes
\* and makes no call to the inner client.
C6_ReplayDownload ==
    [][ \A codes \in StationLists :
          LET record == record_path(_make_key(base_url, ana_params(Join(codes))))
              archive == PathOf(download_dir, zip_filename(Join(codes)))
          IN  ( /\ last'.op = Download /\ last'.mode = "record"
                /\ last'.station_codes = codes
                /\ record \in DOMAIN cache )
              => ( /\ archive \in DOMAIN files'
                   /\ files'[archive] = cache[record]
                   /\ last'.fetches = <<>>
                   /\ last'.result = PathList(<< archive >>)
                   /\ codes = Codes111_222
                      => ( /\ archive = Archive111_222
                           /\ record = record_path(_make_key(base_url, Params111_222)) ) )
      ]_vars

\* A record-mode download of [111, 222] was served from the record and
\* saved as the archive.
C6_Witness ==
    /\ last.op = Download /\ last.mode = "record"
    /\ last.station_codes = Codes111_222
    /\ last.fetches = <<>>
    /\ last.result = PathList(<< Archive111_222 >>)
    /\ files[Archive111_222] = cache[RecordOf(last)]

Downloaded(call, store) ==
    IF call.fetches = <<>> THEN store[RecordOf(call)] ELSE call.net.content

C8_CacheWriteDiscipline ==
    [][ /\ \A p \in DOMAIN cache : p \in DOMAIN cache' /\ cache'[p] = cache[p]
        /\ \A p \in DOMAIN cache' \ DOMAIN cache :
              /\ UsedRecording(last')
              /\ p = RecordOf(last')
              /\ last'.fetches = << <<last'.url, last'.params>> >>
              /\ IsResponse(last'.inner) /\ last'.inner.status_code = 200
              /\ cache'[p] = last'.inner.content
        /\ ( UsedRecording(last') /\ RecordOf(last') \in DOMAIN cache )
           => ( cache' = cache /\ last'.fetches = <<>> )
        /\ ~UsedRecording(last') => cache' = cache ]_vars

\* A get recorded a 200 response beside a record that was already there.
C8_Witness ==
    /\ last.op = RecGet /\ last.fetches # <<>>
    /\ IsResponse(last.inner) /\ last.inner.status_code = 200
    /\ cache[RecordOf(last)] = last.inner.content
    /\ \E p \in DOMAIN cache : p # RecordOf(last)

\* C9: RequestsHttpClient.get: a transport failure yields an HttpError with
\* no status code whose message contains the target URL; a response with
\* status >= 400 yields an HttpError carrying exactly that status; every
\* returned response has status < 400 and the unmodified body bytes.
C9_FetchOutcome ==
    last.op = "RequestsHttpClient.get" =>
      /\ last.net.exc
         => ( /\ IsError(last.result)
              /\ last.result.status_code = NoStatus
              /\ \E i \in DOMAIN last.result.message :
                    last.result.message[i] = last.url )
      /\ ( ~last.net.exc /\ last.net.status_code >= 400 )
         => ( /\ IsError(last.result)
              /\ last.result.status_code = last.net.status_code )
      /\ ( ~last.net.exc /\ last.net.status_code < 400 )
         => IsResponse(last.result)
      /\ IsResponse(last.result)
         => ( /\ last.result.status_code < 400
              /\ last.result.status_code = last.net.status_code
              /\ last.result.content = last.net.content )

\* A get was answered with status 400 and raised an HttpError carrying it.
C9_Witness ==
    /\ last.op = "RequestsHttpClient.get"
    /\ ~last.net.exc /\ last.net.status_code = 400
    /\ IsError(last.result) /\ last.result.status_code = 400

\* C10: every download_station_files performs exactly one get on its HTTP
\* client, with all codes joined by ';' in one 'documentos' parameter;
\* through a RecordingHttpClient this leads to exactly one inner fetch on a
\* miss and none on a hit, with no retry after a failure; on success the
\* result is a list with exactly one path.
C10_SingleBatchedAttempt ==
    [][ last'.op = Download =>
          /\ Len(last'.gets) = 1
          /\ last'.gets[1][1] = base_url
          /\ last'.gets[1][2].items =
                << <<"tipo", <<"3">>>>, <<"documentos", Join(last'.station_codes)>> >>
          /\ last'.station_codes = Codes111_222 => last'.gets[1][2] = Params111_222
          /\ last'.station_codes = <<>> => last'.gets[1][2].items[2][2] = <<>>
          /\ Len(last'.fetches) <= 1
          /\ last'.mode = "record"
             => Len(last'.fetches) =
                  IF record_path(_make_key(base_url, last'.gets[1][2])) \in DOMAIN cache
                  THEN 0 ELSE 1
          /\ last'.mode = "real" => Len(last'.fetches) = 1
          /\ IsError(last'.result) => Len(last'.fetches) = 1
          /\ \/ IsError(last'.result)
             \/ last'.result.kind = "List" /\ Len(last'.result.paths) = 1 ]_vars

\* A record-mode download of no station codes missed the cache, made its one
\* fetch, which failed, and raised the error.
C10_Witness ==
    /\ last.op = Download /\ last.mode = "record" /\ last.station_codes = <<>>
    /\ Len(last.gets) = 1 /\ Len(last.fetches) = 1
    /\ IsError(last.result)

\* The get of a download call failed: the transport raised, or the server
\* answered with a status >= 400.
GetFailed(call) ==
    /\ call.op = Download /\ call.fetches # <<>>
    /\ ( call.net.exc \/ call.net.status_code >= 400 )

\* C11: if the HTTP client's get fails during download_station_files, the
\* same error reaches the caller, no path list is returned, and the archive
\* output directory is left unchanged.
C11_DownloadErrorPropagates ==
    [][ /\ GetFailed(last')
           => ( /\ IsError(last'.result)
                /\ last'.result =
                     RequestsHttpClient_get(last'.url, last'.params, last'.net)
                /\ last'.mode = "record" => last'.result = last'.inner
                /\ files' = files
                /\ cache' = cache )
        /\ ( last'.op = Download /\ IsError(last'.result) )
           => ( GetFailed(last') /\ files' = files ) ]_vars

\* A download failed on a connection error while an archive of the same
\* name was there; the caller got the HttpError.
C11_Witness ==
    /\ GetFailed(last) /\ last.net.exc
    /\ IsError(last.result) /\ last.result.status_code = NoStatus
    /\ ArchiveOf(last) \in DOMAIN files

\* C15: after a successful download_station_files through a
\* RecordingHttpClient whose inner response, if one was fetched, had status
\* 200, the archive ana_<joined-ids>.zip of that station list holds exactly
\* the bytes of the record of that request identity, whatever the upstream
\* sent earlier and whatever the archive held before.
C15_ArchiveAgreesWithRecord ==
    ( /\ last.op = Download /\ last.mode = "record"
      /\ ~IsError(last.result)
      /\ ( last.fetches = <<>> \/ last.inner.status_code = 200 ) )
    => ( /\ RecordOf(last) \in DOMAIN cache
         /\ ArchiveOf(last) \in DOMAIN files
         /\ files[ArchiveOf(last)] = cache[RecordOf(last)] )

\* A record-mode download fetched a 200 response, recorded it and saved it
\* as the archive, after a download of the same station codes.
C15_Witness ==
    /\ last.op = Download /\ last.mode = "record" /\ last.rel = "same"
    /\ last.fetches # <<>> /\ ~IsError(last.result)
    /\ last.inner.status_code = 200
    /\ files[ArchiveOf(last)] = last.inner.content

\* C16: when save_zip_to_folder is called with extract=True and the bytes
\* are not a valid zip archive, the call fails with an error and returns no
\* path, but the file target_dir/filename_hint has already been written
\* with the given bytes, replacing any earlier file; with extract=False the
\* same bytes are saved and the path returned without any validity check.
C16_FailedExtractionKeepsArchive ==
    [][ last'.op = SaveZip =>
          /\ ( last'.extract /\ ~IsZipFile(last'.content) )
             => ( /\ last'.result = BadZipFile
                  /\ last'.wrote
                  /\ TargetOf(last') \in DOMAIN files'
                  /\ files'[TargetOf(last')] = last'.content )
          /\ ~last'.extract
             => ( /\ last'.result = PathResult(TargetOf(last'))
                  /\ files'[TargetOf(last')] = last'.content ) ]_vars

\* An extraction of bytes that are no archive failed, and the file holds
\* those bytes.
C16_Witness ==
    /\ last.op = SaveZip /\ last.extract /\ ~IsZipFile(last.content)
    /\ last.result = BadZipFile
    /\ files[TargetOf(last)] = last.content

(***************************************************************************)
(* The spatial filter (infrastructure/spatial.py).                         *)
(*                                                                         *)
(* Coordinates are integers counting half degrees, so 0.5 is 1, 1 is 2     *)
(* and 2 is 4. A geometry is the set of grid cells it covers; the cell     *)
(* <<x, y>> is the closed square from (x, y) to (x + 1, y + 1). Areas      *)
(* whose edges lie on the grid are represented exactly, and so is the      *)
(* position of a grid point against them: interior, boundary or exterior.  *)
(***************************************************************************)

\* The polygon with corners (x1, y1) and (x2, y2).
Rect(x1, y1, x2, y2) ==
    { <<x, y>> : x \in x1 .. (x2 - 1), y \in y1 .. (y2 - 1) }

\* The four cells that meet at a grid point.
CellsAround(pt) ==
    { <<pt[1] + dx, pt[2] + dy>> : dx \in {-1, 0}, dy \in {-1, 0} }

Point(x, y) == <<x, y>>

\* Point.within read as "inside or on the boundary".
Within_or_on_boundary(pt, geometry) == CellsAround(pt) \cap geometry # {}

\* shapely's within for a point: the point lies in the interior of the
\* geometry, that is, the geometry covers a neighbourhood of it.
Within(pt, geometry) == CellsAround(pt) \subseteq geometry

Station(code, longitude, latitude) ==
    [code |-> code, longitude |-> longitude, latitude |-> latitude]

RECURSIVE FilterLoop(_, _, _)
\* The loop of filter_stations_in_aoi: result is the list built so far.
FilterLoop(stations_list, aoi_geometry, result) ==
    IF stations_list = <<>>
    THEN result
    ELSE LET st == Head(stations_list)
             pt == Point(st.longitude, st.latitude)
         IN  FilterLoop(Tail(stations_list), aoi_geometry,
                        IF Within(pt, aoi_geometry)
                        THEN Append(result, st)
                        ELSE result)

\* filter_stations_in_aoi: the stations the loop kept, and the caller's
\* list as the call leaves it.
filter_stations_in_aoi(stations, aoi_geometry) ==
    LET stations_list == stations
    IN  [result |-> FilterLoop(stations_list, aoi_geometry, <<>>),
         stations |-> stations]

(***************************************************************************)
(* load_aoi. A shapefile is whether the path exists, the CRS it declares   *)
(* ("none" when it declares none) and its features, each a geometry in     *)
(* the coordinates of the file. A projected CRS places a position at       *)
(* other coordinates than WGS84 does; the model takes the coordinates of   *)
(* EPSG:31983 to be those of WGS84 moved by a fixed offset, which keeps    *)
(* the two apart and makes the conversion invertible.                      *)
(***************************************************************************)

WGS84 == "EPSG:4326"

SIRGAS == "EPSG:31983"

Origin(crs) == IF crs = SIRGAS THEN <<100, 200>> ELSE <<0, 0>>

\* GeoDataFrame.to_crs on one geometry.
ToCrs(cells, from, to) ==
    { <<c[1] - Origin(from)[1] + Origin(to)[1],
        c[2] - Origin(from)[2] + Origin(to)[2]>> : c \in cells }

\* unary_union: one geometry covering what the features cover.
UnaryUnion(features) == UNION { features[i] : i \in DOMAIN features }

FileNotFoundError ==
    [kind |-> "FileNotFoundError", read |-> FALSE, crs |-> "none", cells |-> {}]

ValueError ==
    [kind |-> "ValueError", read |-> TRUE, crs |-> "none", cells |-> {}]

Geometry(crs, cells) ==
    [kind |-> "Geometry", read |-> TRUE, crs |-> crs, cells |-> cells]

\* load_aoi that skips the reprojection.
load_aoi_as_declared(shp) ==
    IF ~shp.exists THEN FileNotFoundError
    ELSE IF shp.features = <<>> THEN ValueError
    ELSE Geometry(WGS84, UnaryUnion(shp.features))

load_aoi(shp) ==
    IF ~shp.exists THEN FileNotFoundError
    ELSE IF shp.features = <<>> THEN ValueError
    ELSE LET gdf == IF shp.crs = "none"
                    THEN [crs |-> WGS84, features |-> shp.features]
                    ELSE IF shp.crs # WGS84
                    THEN [crs |-> WGS84,
                          features |-> [i \in DOMAIN shp.features |->
                                          ToCrs(shp.features[i], shp.crs, WGS84)]]
                    ELSE [crs |-> shp.crs, features |-> shp.features]
         IN  Geometry(gdf.crs, UnaryUnion(gdf.features))

(***************************************************************************)
(* The spatial specification: areas are loaded and station lists are       *)
(* filtered, in any order, against a given area or the one just loaded.    *)
(***************************************************************************)

MaxStations == 3

UnitSquare == Rect(0, 0, 2, 2)

WideBox == Rect(0, 0, 4, 2)

Areas == { UnitSquare, WideBox }

\* Inside both areas; outside both; on the left edge of both; inside the
\* wide box only; on the right edge of the unit square, inside the wide box.
StationPool ==
    { Station(1, 1, 1), Station(2, 4, 4), Station(3, 0, 1),
      Station(4, 3, 1), Station(5, 2, 1) }

StationSeqs == UNION { [1 .. n -> StationPool] : n \in 0 .. MaxStations }

\* The unit square as one feature, the wide box as two adjacent features.
FeatureLists ==
    { <<>>, <<UnitSquare>>, <<UnitSquare, Rect(2, 0, 4, 2)>> }

InCrs(features, crs) ==
    [i \in DOMAIN features |-> ToCrs(features[i], WGS84, crs)]

\* A path with nothing behind it, and files that declare the CRS their
\* coordinates are in or declare none.
Shapefiles ==
    { GeoIdle.shapefile }
    \cup { [exists |-> TRUE, crs |-> crs, features |-> InCrs(fl, crs)] :
             crs \in {WGS84, SIRGAS}, fl \in FeatureLists }
    \cup { [exists |-> TRUE, crs |-> "none", features |-> InCrs(fl, crs)] :
             crs \in {WGS84, SIRGAS}, fl \in FeatureLists }

SpatialInit ==
    /\ cache = [p \in {} |-> <<>>]
    /\ files = [p \in {} |-> <<>>]
    /\ last = Idle
    /\ geo = GeoIdle
    /\ race = RaceIdle

LoadAoi ==
    \E shp \in Shapefiles :
        /\ geo' = [GeoIdle EXCEPT !.op = "load_aoi",
                                  !.shapefile = shp,
                                  !.loaded = load_aoi(shp)]
        /\ UNCHANGED <<cache, files, last, race>>

FilterStations ==
    \E stations \in StationSeqs :
        \E area \in Areas \cup ( IF geo.loaded.kind = "Geometry"
                                 THEN {geo.loaded.cells} ELSE {} ) :
            LET done == filter_stations_in_aoi(stations, area)
            IN  /\ geo' = [GeoIdle EXCEPT !.op = "filter_stations_in_aoi",
                                          !.given = stations,
                                          !.stations = done.stations,
                                          !.area = area,
                                          !.kept = done.result]
                /\ UNCHANGED <<cache, files, last, race>>

SpatialNext == LoadAoi \/ FilterStations

SpecSpatial == SpatialInit /\ [][SpatialNext]_vars

(***************************************************************************)
(* Properties of the spatial filter.                                       *)
(***************************************************************************)

Least(S) == CHOOSE x \in S : \A y \in S : x <= y

Most(S) == CHOOSE x \in S : \A y \in S : x >= y

Xs(cells) == { c[1] : c \in cells }

Ys(cells) == { c[2] : c \in cells }

\* The area is a rectangle with its edges on the grid.
IsBox(cells) ==
    /\ cells # {}
    /\ cells = Rect(Least(Xs(cells)), Least(Ys(cells)),
                    Most(Xs(cells)) + 1, Most(Ys(cells)) + 1)

\* The station's longitude and latitude lie strictly between the edges of
\* the filtered area.
StrictlyInsideArea(st) ==
    /\ Least(Xs(geo.area)) < st.longitude
    /\ st.longitude < Most(Xs(geo.area)) + 1
    /\ Least(Ys(geo.area)) < st.latitude
    /\ st.latitude < Most(Ys(geo.area)) + 1

\* Stations at (0.5, 0.5), (2, 2) and (0, 0.5), as longitude and latitude.
ExampleStations == << Station(1, 1, 1), Station(2, 4, 4), Station(3, 0, 1) >>

\* C13: filter_stations_in_aoi returns exactly the stations whose point
\* (x = longitude, y = latitude) lies strictly inside the area, leaving out
\* those on the boundary and outside, in the order of the input, and leaves
\* the input list as it was; for the unit square and stations at
\* (0.5, 0.5), (2, 2) and (0, 0.5) it returns only the first.
C13_ContainmentFilter ==
    geo.op = "filter_stations_in_aoi" =>
        /\ IsBox(geo.area)
        /\ geo.kept = SelectSeq(geo.given, StrictlyInsideArea)
        /\ geo.stations = geo.given
        /\ ( geo.area = UnitSquare /\ geo.given = ExampleStations )
           => geo.kept = << Station(1, 1, 1) >>

\* The example was filtered: of an inside, an outside and a boundary
\* station only the inside one was kept.
C13_Witness ==
    /\ geo.op = "filter_stations_in_aoi"
    /\ geo.area = UnitSquare
    /\ geo.given = ExampleStations
    /\ geo.kept = << Station(1, 1, 1) >>

\* The features of the loaded file, each in WGS84 coordinates: as they are
\* when the file declares WGS84 or nothing, moved back from the projected
\* coordinates otherwise.
FeaturesInWGS84 ==
    { IF geo.shapefile.crs = SIRGAS
      THEN { <<c[1] - 100, c[2] - 200>> : c \in geo.shapefile.features[i] }
      ELSE geo.shapefile.features[i] : i \in DOMAIN geo.shapefile.features }

\* C14: load_aoi fails with a not-found error before any read when the
\* path does not exist, fails with a validation error on an existing file
\* with no features, accepts a file that declares no CRS and takes its
\* coordinates as WGS84, reprojects a file declared in another CRS, and
\* every geometry it returns is the single union of all features in WGS84.
C14_LoadAoiOutcomes ==
    geo.op = "load_aoi" =>
        /\ ~geo.shapefile.exists
           => ( geo.loaded.kind = "FileNotFoundError" /\ ~geo.loaded.read )
        /\ ( geo.shapefile.exists /\ geo.shapefile.features = <<>> )
           => geo.loaded.kind = "ValueError"
        /\ ( geo.shapefile.exists /\ geo.shapefile.features # <<>> )
           => geo.loaded.kind = "Geometry"
        /\ geo.loaded.kind = "Geometry"
           => ( /\ geo.loaded.crs = WGS84
                /\ geo.loaded.cells = UNION FeaturesInWGS84 )

\* A file of two features declared in a projected CRS was loaded as one
\* geometry at its WGS84 position.
C14_Witness ==
    /\ geo.op = "load_aoi"
    /\ geo.shapefile.crs = SIRGAS
    /\ Len(geo.shapefile.features) = 2
    /\ geo.loaded = Geometry(WGS84, WideBox)

(***************************************************************************)
(* Two processes in RecordingHttpClient.get on one record directory.       *)
(*                                                                         *)
(* Nothing in get holds a lock, so the steps of the two processes          *)
(* interleave at every file system call. path.write_bytes(content) is      *)
(* open(path, "wb"), which creates the file or cuts it to length zero,     *)
(* followed by the writes of the bytes at the writer's own offset; how     *)
(* many bytes one write call takes is left open.                           *)
(***************************************************************************)

Procs == { "A", "B" }

\* The record file of the request both processes make.
RacePath == record_path(_make_key(race.url, race.params))

\* The transport answers every process with status 200 and the same bytes.
RaceNet ==
    [exc |-> FALSE, status_code |-> 200, headers |-> ServerHeaders,
     content |-> race.upstream]

\* A write of bytes at an offset of a file; a gap before the offset reads
\* as zero bytes.
WriteAt(file, offset, bytes) ==
    LET n == IF Len(file) > offset + Len(bytes)
             THEN Len(file) ELSE offset + Len(bytes)
    IN  [i \in 1 .. n |->
            IF i > offset /\ i <= offset + Len(bytes) THEN bytes[i - offset]
            ELSE IF i <= Len(file) THEN file[i]
            ELSE 0]

RaceInit ==
    /\ cache = [p \in {} |-> <<>>]
    /\ files = [p \in {} |-> <<>>]
    /\ last = Idle
    /\ geo = GeoIdle
    /\ \E r \in GetRequests : \E c \in Contents :
          race = [url |-> r[1], params |-> r[2], upstream |-> c,
                  procs |-> [p \in Procs |->
                               [pc |-> "exists", resp |-> NoResult, pos |-> 0]]]

\* if path.exists():
PathExists(p) ==
    /\ race.procs[p].pc = "exists"
    /\ race' = [race EXCEPT !.procs[p].pc =
                   IF RacePath \in DOMAIN cache THEN "read_bytes" ELSE "inner_get"]
    /\ UNCHANGED <<cache, files, last, geo>>

\* content = path.read_bytes(); return Httpresponse(200, {}, content)
ReadBytes(p) ==
    /\ race.procs[p].pc = "read_bytes"
    /\ race' = [race EXCEPT !.procs[p].pc = "done",
                            !.procs[p].resp = Httpresponse(200, {}, cache[RacePath])]
    /\ UNCHANGED <<cache, files, last, geo>>

\* resp = self._inner.get(url, params=params, timeout=timeout)
InnerGet(p) ==
    /\ race.procs[p].pc = "inner_get"
    /\ LET resp == RequestsHttpClient_get(race.url, race.params, RaceNet)
       IN  race' = [race EXCEPT !.procs[p].resp = resp,
                                !.procs[p].pc = IF resp.status_code = 200
                                                THEN "open" ELSE "done"]
    /\ UNCHANGED <<cache, files, last, geo>>

\* path.write_bytes(resp.content), the open: the file exists and is empty.
OpenTruncate(p) ==
    /\ race.procs[p].pc = "open"
    /\ cache' = WriteBytes(cache, RacePath, <<>>)
    /\ race' = [race EXCEPT !.procs[p].pc = "write", !.procs[p].pos = 0]
    /\ UNCHANGED <<files, last, geo>>

\* path.write_bytes(resp.content), one write of the bytes not yet written;
\* after the last one the file is closed and get returns resp.
WriteChunk(p) ==
    /\ race.procs[p].pc = "write"
    /\ LET content == race.procs[p].resp.content
           pos == race.procs[p].pos
       IN  \E n \in 1 .. (Len(content) - pos) :
              /\ cache' = WriteBytes(cache, RacePath,
                             WriteAt(cache[RacePath], pos,
                                     SubSeq(content, pos + 1, pos + n)))
              /\ race' = [race EXCEPT !.procs[p].pos = pos + n,
                                      !.procs[p].pc =
                                          IF pos + n = Len(content)
                                          THEN "done" ELSE "write"]
    /\ UNCHANGED <<files, last, geo>>

RaceNext ==
    \E p \in Procs :
        \/ PathExists(p)
        \/ ReadBytes(p)
        \/ InnerGet(p)
        \/ OpenTruncate(p)
        \/ WriteChunk(p)

SpecRace == RaceInit /\ [][RaceNext]_vars

Returned(p) == race.procs[p].pc = "done"

\* C12: when two processes run RecordingHttpClient.get for the same
\* (url, params) concurrently on one record directory and the upstream
\* answers both with the same status-200 content, every caller that has
\* returned received exactly that content, never empty or partial bytes,
\* and once both have returned the record holds exactly that content.
C12_BenignRace_AsStated ==
    /\ \A p \in Procs :
          Returned(p) => ( /\ IsResponse(race.procs[p].resp)
                           /\ race.procs[p].resp.content = race.upstream )
    /\ ( \A p \in Procs : Returned(p) )
          => ( /\ RacePath \in DOMAIN cache
               /\ cache[RacePath] = race.upstream )

\* The part of C12 that the code keeps: once both processes have returned,
\* the record holds exactly the upstream content.
C12_LastWriterLeavesContent ==
    ( \A p \in Procs : Returned(p) )
       => ( /\ RacePath \in DOMAIN cache
            /\ cache[RacePath] = race.upstream )

\* A process returned a replayed response with fewer bytes than the
\* upstream sent, read while the other process was writing the record.
C12_ShortRead ==
    \E p \in Procs :
        /\ Returned(p)
        /\ race.procs[p].resp.headers = {}
        /\ Len(race.procs[p].resp.content) < Len(race.upstream)

====
